---- MODULE Spec2Model ----
(***************************************************************************)
(* Model of the Twilio Media Streams session handler of src/main.py        *)
(* (twilio_ws) together with the tone helper it calls.                      *)
(*                                                                         *)
(* One asyncio task runs twilio_ws per WebSocket.  Between two awaits the  *)
(* task runs atomically, so the steps of a session are: the accept, the    *)
(* resumption of receive_text with everything up to the next await, and    *)
(* the resumption of send_text with everything up to the next await.       *)
(* Time is counted in whole seconds; time.time() reads the variable now.   *)
(***************************************************************************)
EXTENDS Integers, Sequences, FiniteSets, TLC

VARIABLES now, chan, pc, result, stream_sid, last_beep_at, raw, outbuf, out,
          nin, last_start, sent_at, job, pcm, ulaw, args

\* The variables of one call of the codec: what is called, the sample buffer,
\* the bytes returned and the arguments of make_beep_mulaw.
codec == <<job, pcm, ulaw, args>>

vars == <<now, chan, pc, result, stream_sid, last_beep_at, raw, outbuf, out,
          nin, last_start, sent_at, codec>>

(* ------------------------------ bounds --------------------------------- *)

\* Wall-clock reading when the first connection is accepted (seconds).
StartTime == 10
\* The clock advances at most this many seconds past StartTime.
MaxTicks == 8
\* Start and media frames the remote sends on one channel.
MaxFrames == 3
\* The same, on each of two concurrent channels.
PairMaxFrames == 2

\* Longest sample buffer, beyond the single samples, handed to pcm16_to_mulaw.
MaxLen == 3

(* ----------------------------- constants ------------------------------- *)

SAMPLE_RATE == 8000
GREETING_MS == 300
GREETING_HZ == 880
HEARTBEAT_MS == 200
HEARTBEAT_HZ == 660
HEARTBEAT_S == 6
EPOCH == 0

MU_LAW_MAX == 8191
BIAS == 33
\* mask = 0x1000 and range(7, 0, -1) of the exponent loop.
EXP_MASK == 4096
EXP_TOP == 7

Sessions == {"call1", "call2"}
\* The call followed when a single call is on the line.
FirstCall == "call1"

\* Python's None, the value of stream_sid before any start frame.
None == "<None>"
\* A start frame whose start object (or its streamSid key) is absent.
Missing == "<missing>"
\* The streamSid strings a remote may put in a start frame.
SIDS == {"", "CA123", "CA456"}

\* The event values of inbound JSON objects; NoEvent is an object with no
\* "event" key (msg.get returns None).
NoEvent == "<no event>"
Events == {"connected", "start", "media", "stop", "dtmf", "mark", NoEvent}

\* No text received yet.
NoRaw == [shape |-> "none", event |-> NoEvent, sid |-> Missing]

\* The inbound texts: not JSON at all, JSON that is no object, or an object
\* with its event and, for a start frame, its start.streamSid.
Frames ==
  {[shape |-> "notjson", event |-> NoEvent, sid |-> Missing],
   [shape |-> "array", event |-> NoEvent, sid |-> Missing]}
  \cup {[shape |-> "object", event |-> e, sid |-> Missing] : e \in Events}
  \cup {[shape |-> "object", event |-> "start", sid |-> x] : x \in SIDS}

\* The texts sent on each of two concurrent channels.
PairFrames ==
  {f \in Frames : \/ f.shape = "notjson"
                  \/ f.shape = "object" /\ f.event \in {"media", "stop", "dtmf"}
                  \/ f.shape = "object" /\ f.event = "start"
                       /\ f.sid \in {"CA123", "CA456"}}

(* ------------------------------- codec --------------------------------- *)

\* Variant: the sample count is rounded to the nearest instead of truncated.
NumSamplesRounded(duration_ms, sample_rate) ==
  (sample_rate * duration_ms + 500) \div 1000

\* int(sample_rate * duration_ms / 1000.0): the length of np.arange(...).
NumSamples(duration_ms, sample_rate) == (sample_rate * duration_ms) \div 1000

\* Length of the base64 text of n bytes (padded to a multiple of 4).
B64Len(n) == 4 * ((n + 2) \div 3)

\* Length of the string make_beep_mulaw returns: one mu-law byte per sample,
\* base64 encoded.
BeepB64Len(duration_ms, freq_hz, sample_rate) ==
  B64Len(NumSamples(duration_ms, sample_rate))

\* The signed 16-bit samples.
Int16 == -(2^15) .. (2^15 - 1)

\* astype(np.int16): the value wraps into 16 bits.
AsInt16(x) == ((x + 2^15) % 2^16) - 2^15

\* (x >> 8) & 0x80 on an int16: bit 7 of the arithmetic shift, the sign bit.
SignBit(x) == (((x \div 2^8) \div 2^7) % 2) * 2^7

\* np.abs on an int16 array: the negation wraps, so abs(-32768) is -32768.
Abs16(x) == AsInt16(IF x < 0 THEN -x ELSE x)

\* Variant: the magnitude is not clamped.
ClampNone(x) == x

\* np.minimum(x, MU_LAW_MAX).
Clamp(x) == IF x < MU_LAW_MAX THEN x ELSE MU_LAW_MAX

\* x & mask for a one-bit mask, as 0 or 1 (two's complement for x < 0).
BitAnd1(x, mask) == (x \div mask) % 2

\* The loop of lines 69-71: every pass overwrites exponent where x & mask is
\* set, then halves the mask.
RECURSIVE ExponentScan(_, _, _, _)
ExponentScan(x, exp, mask, exponent) ==
  IF exp = 0 THEN exponent
  ELSE ExponentScan(x, exp - 1, mask \div 2,
                    IF BitAnd1(x, mask) = 1 THEN exp ELSE exponent)

\* Lines 67-71.
Exponent(x) == ExponentScan(x, EXP_TOP, EXP_MASK, 0)

\* (x >> (exponent + 3)) & 0x0F.
Mantissa(x, e) == (x \div 2^(e + 3)) % 2^4

\* Lines 55-74 for one sample: the three fields occupy disjoint bits, so the
\* or is their sum, and ~v & 0xFF is 255 - v.
MulawByte(s) ==
  LET x16 == AsInt16(s)
      x == Clamp(Abs16(x16)) + BIAS
      e == Exponent(x)
  IN  (2^8 - 1) - (SignBit(x16) + e * 2^4 + Mantissa(x, e))

\* Variant: the array is serialised without astype(np.uint8), four bytes
\* (int32, little endian) per sample.
pcm16_to_mulaw_int32(buf) ==
  [i \in 1..(4 * Len(buf)) |->
     IF i % 4 = 1 THEN MulawByte(buf[(i + 3) \div 4]) ELSE 0]

\* pcm16_to_mulaw: element by element, one byte per sample.
pcm16_to_mulaw(buf) == [i \in 1..Len(buf) |-> MulawByte(buf[i])]

\* Largest sample of the tone: int(0.2 * 32767).
TonePeak == (2 * (2^15 - 1)) \div 10

\* The sample values of the tone are not computed (a sine); a buffer is
\* filled with one of these levels of the tone's range.
ToneLevels == {-TonePeak, 0, TonePeak}

\* Samples used in the longer buffers handed to pcm16_to_mulaw.
TestSamples == {-(2^15), -8191, -159, -127, 0, 127, 159, 8191, 20000}

RECURSIVE SeqsUpTo(_, _)
SeqsUpTo(S, n) ==
  IF n = 0 THEN {<<>>}
  ELSE LET shorter == SeqsUpTo(S, n - 1)
       IN  shorter \cup {Append(q, x) : q \in shorter, x \in S}

\* The buffers compressed: every single sample, and all short buffers of
\* the test samples, the empty one included.
Buffers == {<<s>> : s \in Int16} \cup SeqsUpTo(TestSamples, MaxLen)

\* The arguments make_beep_mulaw is called with.
BeepArgs ==
  [duration_ms : {0, 1, 3, HEARTBEAT_MS, GREETING_MS, 1000},
   freq_hz : {HEARTBEAT_HZ, GREETING_HZ},
   sample_rate : {SAMPLE_RATE, 1600, 44100}]

(* --------------------------- session handler --------------------------- *)

\* Python truthiness of stream_sid: None and the empty string are falsy.
Truthy(sid) == sid # None /\ sid # ""

\* Variant: the heartbeat test forgets that no start frame has been seen.
HeartbeatDueNoSid(sid, last, t) == (t - last) > HEARTBEAT_S

\* Variant: the heartbeat is due at 6 s already.
HeartbeatDueAtSix(sid, last, t) == Truthy(sid) /\ (t - last) >= HEARTBEAT_S

\* The condition of line 128.
HeartbeatDue(sid, last, t) == Truthy(sid) /\ (t - last) > HEARTBEAT_S

\* Variant: the frame is built without the session id.
MediaFrameNoSid(sid, payload) ==
  [event |-> "media", streamSid |-> None, payload |-> payload]

\* The object handed to json.dumps; payload is the length of the base64 text.
MediaFrame(sid, payload) ==
  [event |-> "media", streamSid |-> sid, payload |-> payload]

NoFrame == [event |-> "none", streamSid |-> None, payload |-> 0]

\* Variant: only the disconnect is caught, anything else leaves twilio_ws.
OnExceptionNarrow(kind) ==
  IF kind = "WebSocketDisconnect" THEN "returned" ELSE "raised"

\* What the two except clauses do with an exception raised inside the try.
OnException(kind) == "returned"

\* What the start branch assigns to stream_sid.
StartSid(f) == f.sid

\* The control outcomes of one pass through the loop body.
Continue(sid) == [ctl |-> "continue", sid |-> sid, frame |-> NoFrame]
Break(sid) == [ctl |-> "break", sid |-> sid, frame |-> NoFrame]
Throw(sid) == [ctl |-> "raise", sid |-> sid, frame |-> NoFrame]
Send(sid, frame) == [ctl |-> "send", sid |-> sid, frame |-> frame]

\* Variant: the id is captured but no greeting is sent.
OnStartNoGreeting(f, sid) ==
  IF f.sid = Missing THEN Throw(sid) ELSE Continue(f.sid)

\* Variant: a start frame is honoured only while no id is set.
OnStartOnce(f, sid) ==
  IF f.sid = Missing THEN Throw(sid)
  ELSE IF sid # None THEN Continue(sid)
  ELSE Send(StartSid(f),
            MediaFrame(StartSid(f),
                       BeepB64Len(GREETING_MS, GREETING_HZ, SAMPLE_RATE)))

\* The start branch, lines 108-120, up to the await of send_text.
OnStart(f, sid) ==
  IF f.sid = Missing
    THEN Throw(sid)
    ELSE Send(StartSid(f),
              MediaFrame(StartSid(f),
                         BeepB64Len(GREETING_MS, GREETING_HZ, SAMPLE_RATE)))

\* The media branch, lines 124-138, up to the await of send_text.
OnMedia(sid, last, t) ==
  IF HeartbeatDue(sid, last, t)
    THEN Send(sid, MediaFrame(sid,
                     BeepB64Len(HEARTBEAT_MS, HEARTBEAT_HZ, SAMPLE_RATE)))
    ELSE Continue(sid)

\* Variant: stop is ignored like an unknown event.
OnStopContinue(sid) == Continue(sid)

\* The stop branch, lines 140-142.
OnStop(sid) == Break(sid)

\* Variant: an unknown event ends the loop.
OnOtherBreak(sid) == Break(sid)

\* Variant: the heartbeat is sent for unknown events too.
OnOtherBeeps(sid) ==
  Send(sid, MediaFrame(sid, BeepB64Len(HEARTBEAT_MS, HEARTBEAT_HZ, SAMPLE_RATE)))

\* Events that match none of the four tests fall off the end of the body.
OnOther(sid) == Continue(sid)

\* Variant: a text that does not decode to an object is skipped.
BodySkipMalformed(f, sid, last, t) ==
  IF f.shape # "object" THEN Continue(sid)
  ELSE IF f.event = "connected" THEN Continue(sid)
  ELSE IF f.event = "start" THEN
    (IF f.sid = Missing THEN Continue(sid) ELSE OnStart(f, sid))
  ELSE IF f.event = "media" THEN OnMedia(sid, last, t)
  ELSE IF f.event = "stop" THEN OnStop(sid)
  ELSE OnOther(sid)

\* Lines 100-144: decode the text f and dispatch on its event, given the
\* session's stream_sid, last_beep_at and the reading t of time.time().
Body(f, sid, last, t) ==
  IF f.shape = "notjson" THEN Throw(sid)
  ELSE IF f.shape # "object" THEN Throw(sid)
  ELSE IF f.event = "connected" THEN Continue(sid)
  ELSE IF f.event = "start" THEN OnStart(f, sid)
  ELSE IF f.event = "media" THEN OnMedia(sid, last, t)
  ELSE IF f.event = "stop" THEN OnStop(sid)
  ELSE OnOther(sid)

\* Start and media frames: nin counts them, last_start remembers the
\* streamSid of the latest start frame (both only observe the run).
Triggering(f) == f.shape = "object" /\ f.event \in {"start", "media"}

\* No codec call is followed.
NoArgs == [duration_ms |-> 0, freq_hz |-> 0, sample_rate |-> 0]
CodecIdle == job = "idle" /\ pcm = <<>> /\ ulaw = <<>> /\ args = NoArgs

\* The state after construction: no connection accepted yet.  sent_at records
\* when the latest outbound frame went out (it only observes the run).
SessionInit ==
  /\ now = StartTime
  /\ chan = [s \in Sessions |-> "open"]
  /\ pc = [s \in Sessions |-> "accept"]
  /\ result = [s \in Sessions |-> "none"]
  /\ stream_sid = [s \in Sessions |-> None]
  /\ last_beep_at = [s \in Sessions |-> EPOCH]
  /\ raw = [s \in Sessions |-> NoRaw]
  /\ outbuf = [s \in Sessions |-> NoFrame]
  /\ out = [s \in Sessions |-> <<>>]
  /\ nin = [s \in Sessions |-> 0]
  /\ last_start = [s \in Sessions |-> None]
  /\ sent_at = [s \in Sessions |-> EPOCH]

Init == SessionInit /\ CodecIdle

\* The wall clock advances by d seconds, up to k seconds past StartTime.
Tick(d, k) ==
  /\ now + d <= StartTime + k
  /\ now' = now + d
  /\ UNCHANGED <<chan, pc, result, stream_sid, last_beep_at, raw, outbuf, out, nin, last_start,
               sent_at, codec>>

\* The remote hangs up: pending and later receives raise WebSocketDisconnect.
RemoteClose(s) ==
  /\ pc[s] # "done"
  /\ chan[s] = "open"
  /\ chan' = [chan EXCEPT ![s] = "closed"]
  /\ UNCHANGED <<now, pc, result, stream_sid, last_beep_at, raw, outbuf, out, nin, last_start,
               sent_at, codec>>

\* The transport breaks: pending and later calls raise some other exception.
TransportError(s) ==
  /\ pc[s] # "done"
  /\ chan[s] = "open"
  /\ chan' = [chan EXCEPT ![s] = "error"]
  /\ UNCHANGED <<now, pc, result, stream_sid, last_beep_at, raw, outbuf, out, nin, last_start,
               sent_at, codec>>

\* Variant: a handler that has ended is entered again on the same channel.
AcceptRetry(s) ==
  /\ pc[s] \in {"accept", "done"}
  /\ chan[s] = "open"
  /\ pc' = [pc EXCEPT ![s] = "recv"]
  /\ UNCHANGED <<now, chan, result, stream_sid, last_beep_at, raw, outbuf, out, nin, last_start,
               sent_at, codec>>

\* Line 92, await ws.accept(), completes.
Accept(s) ==
  /\ pc[s] = "accept"
  /\ chan[s] = "open"
  /\ pc' = [pc EXCEPT ![s] = "recv"]
  /\ UNCHANGED <<now, chan, result, stream_sid, last_beep_at, raw, outbuf, out, nin, last_start,
               sent_at, codec>>

\* Line 92 raises: it stands outside the try, so the exception leaves twilio_ws.
AcceptFail(s) ==
  /\ pc[s] = "accept"
  /\ chan[s] # "open"
  /\ pc' = [pc EXCEPT ![s] = "done"]
  /\ result' = [result EXCEPT ![s] = "raised"]
  /\ UNCHANGED <<now, chan, stream_sid, last_beep_at, raw, outbuf, out, nin, last_start,
               sent_at, codec>>

\* Variant: the failed receive is swallowed inside the loop and retried.
ReceiveFailRetry(s) ==
  /\ pc[s] = "recv"
  /\ chan[s] # "open"
  /\ UNCHANGED vars

\* Line 99 raises (closed or broken channel); lines 146-150 return.
ReceiveFail(s) ==
  /\ pc[s] = "recv"
  /\ chan[s] # "open"
  /\ pc' = [pc EXCEPT ![s] = "done"]
  /\ result' = [result EXCEPT ![s] =
        OnException(IF chan[s] = "closed" THEN "WebSocketDisconnect" ELSE "Exception")]
  /\ UNCHANGED <<now, chan, stream_sid, last_beep_at, raw, outbuf, out, nin, last_start,
               sent_at, codec>>

\* Line 99 returns a text f of F; the loop body runs up to its next await,
\* to the break or to the exception.  k bounds the start and media frames.
ReceiveFrame(s, F, k) ==
  /\ pc[s] = "recv"
  /\ chan[s] = "open"
  /\ \E f \in F :
       LET r == Body(f, stream_sid[s], last_beep_at[s], now) IN
       /\ Triggering(f) => nin[s] < k
       /\ raw' = [raw EXCEPT ![s] = f]
       /\ nin' = [nin EXCEPT ![s] = IF Triggering(f) THEN @ + 1 ELSE @]
       /\ last_start' = [last_start EXCEPT ![s] =
            IF Triggering(f) /\ f.event = "start" /\ f.sid # Missing THEN f.sid ELSE @]
       /\ stream_sid' = [stream_sid EXCEPT ![s] = r.sid]
       /\ outbuf' = [outbuf EXCEPT ![s] = r.frame]
       /\ pc' = [pc EXCEPT ![s] =
            CASE r.ctl = "continue" -> "recv"
              [] r.ctl = "send" -> "send"
              [] OTHER -> "done"]
       /\ result' = [result EXCEPT ![s] =
            CASE r.ctl = "break" -> "returned"
              [] r.ctl = "raise" -> OnException("Exception")
              [] OTHER -> @]
  /\ UNCHANGED <<now, chan, last_beep_at, out, sent_at, codec>>

\* Variant: last_beep_at is one process-wide value.
SendTextGlobal(s) ==
  /\ pc[s] = "send"
  /\ chan[s] = "open"
  /\ out' = [out EXCEPT ![s] = Append(@, outbuf[s])]
  /\ last_beep_at' = [t \in Sessions |-> now]
  /\ sent_at' = [sent_at EXCEPT ![s] = now]
  /\ outbuf' = [outbuf EXCEPT ![s] = NoFrame]
  /\ pc' = [pc EXCEPT ![s] = "recv"]
  /\ UNCHANGED <<now, chan, result, stream_sid, raw, nin, last_start, codec>>

\* Lines 114-122 and 130-138: send_text completes, the frame is on the wire,
\* last_beep_at = time.time(), continue.
SendText(s) ==
  /\ pc[s] = "send"
  /\ chan[s] = "open"
  /\ out' = [out EXCEPT ![s] = Append(@, outbuf[s])]
  /\ last_beep_at' = [last_beep_at EXCEPT ![s] = now]
  /\ sent_at' = [sent_at EXCEPT ![s] = now]
  /\ outbuf' = [outbuf EXCEPT ![s] = NoFrame]
  /\ pc' = [pc EXCEPT ![s] = "recv"]
  /\ UNCHANGED <<now, chan, result, stream_sid, raw, nin, last_start, codec>>

\* send_text raises on a closed or broken channel; lines 146-150 return.
SendFail(s) ==
  /\ pc[s] = "send"
  /\ chan[s] # "open"
  /\ outbuf' = [outbuf EXCEPT ![s] = NoFrame]
  /\ pc' = [pc EXCEPT ![s] = "done"]
  /\ result' = [result EXCEPT ![s] =
        OnException(IF chan[s] = "closed" THEN "WebSocketDisconnect" ELSE "Exception")]
  /\ UNCHANGED <<now, chan, stream_sid, last_beep_at, raw, out, nin, last_start,
               sent_at, codec>>

\* One call on the line.
Next ==
  \/ Tick(1, MaxTicks)
  \/ RemoteClose(FirstCall)
  \/ TransportError(FirstCall)
  \/ Accept(FirstCall)
  \/ AcceptFail(FirstCall)
  \/ ReceiveFail(FirstCall)
  \/ ReceiveFrame(FirstCall, Frames, MaxFrames)
  \/ SendText(FirstCall)
  \/ SendFail(FirstCall)

Spec == Init /\ [][Next]_vars

\* The event loop resumes a task whose awaited receive or send has completed,
\* here with the exception of a closed or broken channel.
FairSpec ==
  Spec /\ WF_vars(ReceiveFail(FirstCall)) /\ WF_vars(SendFail(FirstCall))

\* Two calls at once, each in its own task.
NextPair ==
  \/ Tick(HEARTBEAT_S + 1, HEARTBEAT_S + 1)
  \/ \E s \in Sessions : RemoteClose(s)
  \/ \E s \in Sessions : TransportError(s)
  \/ \E s \in Sessions : Accept(s)
  \/ \E s \in Sessions : AcceptFail(s)
  \/ \E s \in Sessions : ReceiveFail(s)
  \/ \E s \in Sessions : ReceiveFrame(s, PairFrames, PairMaxFrames)
  \/ \E s \in Sessions : SendText(s)
  \/ \E s \in Sessions : SendFail(s)

SpecPair == Init /\ [][NextPair]_vars


\* A call of pcm16_to_mulaw on the buffer pcm.
Pcm16ToMulaw ==
  /\ job = "compress"
  /\ ulaw' = pcm16_to_mulaw(pcm)
  /\ job' = "compressed"
  /\ UNCHANGED <<now, chan, pc, result, stream_sid, last_beep_at, raw, outbuf, out,
               nin, last_start, sent_at, pcm, args>>

\* A call of make_beep_mulaw(duration_ms, freq_hz, sample_rate): the sample
\* buffer of lines 80-82, compressed by line 83.
MakeBeep ==
  /\ job = "beep"
  /\ \E v \in ToneLevels :
       pcm' = [i \in 1..NumSamples(args.duration_ms, args.sample_rate) |-> v]
  /\ ulaw' = pcm16_to_mulaw(pcm')
  /\ job' = "beeped"
  /\ UNCHANGED <<now, chan, pc, result, stream_sid, last_beep_at, raw, outbuf, out,
               nin, last_start, sent_at, args>>

\* One call of the codec, on any of the inputs.
CodecInit ==
  /\ SessionInit
  /\ ulaw = <<>>
  /\ \/ job = "compress" /\ pcm \in Buffers /\ args = NoArgs
     \/ job = "beep" /\ pcm = <<>> /\ args \in BeepArgs

NextCodec == Pcm16ToMulaw \/ MakeBeep

SpecCodec == CodecInit /\ [][NextCodec]_vars

(* ------------------------- states of the table ------------------------- *)

AwaitingStart(s) == pc[s] \in {"recv", "send"} /\ stream_sid[s] = None
Active(s) == pc[s] \in {"recv", "send"} /\ stream_sid[s] # None
Terminated(s) == pc[s] = "done"

\* The session's own variables.
Local(s) ==
  <<pc[s], result[s], stream_sid[s], last_beep_at[s], raw[s], outbuf[s],
    out[s], nin[s], last_start[s], sent_at[s]>>

\* This step is session s resuming from receive_text with the text f.
Got(s, f) ==
  /\ pc[s] = "recv"
  /\ chan[s] = "open"
  /\ raw'[s] = f
  /\ <<pc[s], raw[s], nin[s]>> # <<pc'[s], raw'[s], nin'[s]>>

\* This step is session s resuming from a send_text that succeeded.
Sent(s) == pc[s] = "send" /\ pc'[s] = "recv"

StartFrame(S) == [shape |-> "object", event |-> "start", sid |-> S]
MediaIn == [shape |-> "object", event |-> "media", sid |-> Missing]
StopFrame == [shape |-> "object", event |-> "stop", sid |-> Missing]
Known == {"connected", "start", "media", "stop"}
UnknownFrames == {f \in Frames : f.shape = "object" /\ f.event \notin Known}
Malformed ==
  {f \in Frames : f.shape # "object" \/ (f.event = "start" /\ f.sid = Missing)}

GreetingLen == BeepB64Len(GREETING_MS, GREETING_HZ, SAMPLE_RATE)
HeartbeatLen == BeepB64Len(HEARTBEAT_MS, HEARTBEAT_HZ, SAMPLE_RATE)

(* -------------------------------- claims ------------------------------- *)

\* C1: in AWAITING_START a start frame carrying S captures S and hands
\* send_text one media frame with streamSid S and a non-empty payload, nothing
\* being sent before that; when the send completes exactly that frame has gone
\* out, the heartbeat timestamp is the current time and the session is ACTIVE.
C1_StartGreets ==
  [][\A s \in Sessions :
       /\ \A S \in SIDS :
            (AwaitingStart(s) /\ Got(s, StartFrame(S))) =>
              /\ stream_sid'[s] = S
              /\ pc'[s] = "send"
              /\ outbuf'[s].event = "media"
              /\ outbuf'[s].streamSid = S
              /\ outbuf'[s].payload > 0
              /\ out'[s] = out[s]
       /\ (Sent(s) /\ raw[s].event = "start") =>
              /\ out'[s] = Append(out[s], outbuf[s])
              /\ last_beep_at'[s] = now'
              /\ stream_sid'[s] = raw[s].sid
              /\ Active(s)']_vars

C1_Witness ==
  \E s \in Sessions :
    /\ pc[s] = "recv" /\ nin[s] = 1
    /\ raw[s] = StartFrame("CA123")
    /\ stream_sid[s] = "CA123"
    /\ out[s] = <<[event |-> "media", streamSid |-> "CA123", payload |-> GreetingLen]>>
    /\ last_beep_at[s] = now

\* C2: in ACTIVE, whatever id string the start frame carried, a media frame
\* leads to one heartbeat frame and a fresh timestamp exactly when more than
\* 6 s have passed since the last one, and otherwise changes nothing.
C2_HeartbeatIff ==
  [][\A s \in Sessions :
       /\ (Active(s) /\ Got(s, MediaIn)) =>
            IF now - last_beep_at[s] > HEARTBEAT_S
              THEN /\ pc'[s] = "send"
                   /\ outbuf'[s].event = "media"
                   /\ stream_sid'[s] = stream_sid[s]
              ELSE /\ pc'[s] = "recv"
                   /\ outbuf'[s] = NoFrame
                   /\ out'[s] = out[s]
                   /\ stream_sid'[s] = stream_sid[s]
                   /\ last_beep_at'[s] = last_beep_at[s]
       /\ (Sent(s) /\ raw[s].event = "media") =>
            /\ Len(out'[s]) = Len(out[s]) + 1
            /\ last_beep_at'[s] = now']_vars

\* C3: a stop frame in AWAITING_START or ACTIVE ends the loop: the handler
\* returns without raising, sends nothing for the frame and nothing after it.
C3_StopTerminates ==
  [][\A s \in Sessions :
       /\ Got(s, StopFrame) =>
            /\ Terminated(s)'
            /\ result'[s] = "returned"
            /\ outbuf'[s] = NoFrame
            /\ out'[s] = out[s]
       /\ (Terminated(s) /\ raw[s] = StopFrame) =>
            /\ Terminated(s)'
            /\ out'[s] = out[s]
            /\ result'[s] = "returned"]_vars

C3_Witness ==
  \E s \in Sessions :
    /\ Terminated(s) /\ raw[s] = StopFrame /\ result[s] = "returned"
    /\ stream_sid[s] = "CA123" /\ Len(out[s]) = 2

\* C4: a well-formed frame of an unknown event kind (dtmf, mark, no event
\* field) sends nothing, leaves session id and timestamp alone and the handler
\* goes back to receive.
C4_UnknownIgnored ==
  [][\A s \in Sessions : \A f \in UnknownFrames :
       Got(s, f) =>
         /\ pc'[s] = "recv"
         /\ result'[s] = "none"
         /\ outbuf'[s] = NoFrame
         /\ out'[s] = out[s]
         /\ stream_sid'[s] = stream_sid[s]
         /\ last_beep_at'[s] = last_beep_at[s]]_vars

C4_Witness ==
  \E s \in Sessions :
    /\ pc[s] = "recv" /\ raw[s].event = "dtmf" /\ raw[s].shape = "object"
    /\ Active(s) /\ Len(out[s]) = 1 /\ now - last_beep_at[s] > HEARTBEAT_S

\* C5 as stated: a malformed or undecodable frame (not JSON, JSON that is no
\* object, a start frame without start.streamSid) is skipped: the session
\* state is unchanged and the handler goes back to receive.
C5_MalformedSkipped ==
  [][\A s \in Sessions : \A f \in Malformed :
       Got(s, f) =>
         /\ pc'[s] = "recv"
         /\ result'[s] = "none"
         /\ out'[s] = out[s]
         /\ stream_sid'[s] = stream_sid[s]
         /\ last_beep_at'[s] = last_beep_at[s]]_vars

\* C5 amended: a malformed or undecodable frame ends that session silently:
\* the handler returns without raising, sends nothing for the frame, and the
\* session id and heartbeat timestamp stay as they were.
C5_MalformedEndsSession ==
  [][\A s \in Sessions : \A f \in Malformed :
       Got(s, f) =>
         /\ Terminated(s)'
         /\ result'[s] = "returned"
         /\ outbuf'[s] = NoFrame
         /\ out'[s] = out[s]
         /\ stream_sid'[s] = stream_sid[s]
         /\ last_beep_at'[s] = last_beep_at[s]]_vars

C5_Witness ==
  \E s \in Sessions :
    /\ Terminated(s) /\ raw[s].shape = "notjson" /\ result[s] = "returned"
    /\ chan[s] = "open" /\ stream_sid[s] # None /\ Len(out[s]) = 1

\* This step is a failure inside the try of session s: a receive or a send
\* on a closed or broken channel, or a text whose decoding or handling raises.
Fails(s) ==
  \/ pc[s] \in {"recv", "send"} /\ chan[s] # "open" /\ pc'[s] # pc[s]
  \/ \E f \in Malformed : Got(s, f)

\* C6: a failure while receiving, decoding, handling or sending ends that
\* session silently: the handler returns normally, nothing propagates to the
\* caller and nothing is retried; only a failed accept, before the try and
\* before any frame, leaves twilio_ws as an exception.
C6_FailuresSilent ==
  /\ [][\A s \in Sessions :
         Fails(s) =>
           /\ Terminated(s)'
           /\ result'[s] = "returned"
           /\ out'[s] = out[s]]_vars
  /\ [](\A s \in Sessions :
         result[s] = "raised" =>
           /\ raw[s] = NoRaw /\ out[s] = <<>> /\ nin[s] = 0
           /\ stream_sid[s] = None /\ chan[s] # "open")

C6_Witness ==
  \E s \in Sessions :
    /\ Terminated(s) /\ result[s] = "returned" /\ chan[s] = "error"
    /\ raw[s] = MediaIn /\ Len(out[s]) = 1 /\ stream_sid[s] = "CA456"

\* C7: every outbound frame is a media event with a payload and carries the
\* session id current when it is sent, which is the streamSid of the latest
\* start frame and never the unset id.
C7_OutboundFrames ==
  /\ [][\A s \in Sessions :
         out'[s] # out[s] =>
           /\ Len(out'[s]) = Len(out[s]) + 1
           /\ SubSeq(out'[s], 1, Len(out[s])) = out[s]
           /\ out'[s][Len(out'[s])] =
                [event |-> "media", streamSid |-> last_start[s],
                 payload |-> IF raw[s].event = "start"
                               THEN GreetingLen ELSE HeartbeatLen]
           /\ stream_sid[s] = last_start[s]
           /\ last_start[s] \in SIDS]_vars
  /\ [](\A s \in Sessions : \A i \in 1..Len(out[s]) :
         /\ out[s][i].event = "media"
         /\ out[s][i].streamSid \in SIDS
         /\ out[s][i].payload > 0)

C7_Witness ==
  \E s \in Sessions :
    /\ Len(out[s]) = 3
    /\ out[s][1] = [event |-> "media", streamSid |-> "CA123", payload |-> GreetingLen]
    /\ out[s][2] = [event |-> "media", streamSid |-> "CA456", payload |-> GreetingLen]
    /\ out[s][3] = [event |-> "media", streamSid |-> "CA456", payload |-> HeartbeatLen]

\* C8: at most one outbound frame per inbound frame and only for start and
\* media frames: the frames sent never outnumber the start and media frames
\* processed, a send adds one frame, and nothing is sent from a session that
\* is waiting in receive or has ended.
C8_OnePerTrigger ==
  /\ [](\A s \in Sessions :
         /\ Len(out[s]) + (IF pc[s] = "send" THEN 1 ELSE 0) <= nin[s]
         /\ pc[s] = "send" => raw[s].event \in {"start", "media"})
  /\ [][\A s \in Sessions :
         /\ out'[s] # out[s] => (pc[s] = "send" /\ Len(out'[s]) = Len(out[s]) + 1)
         /\ pc[s] # "send" => out'[s] = out[s]]_vars

C8_Witness ==
  \E s \in Sessions :
    /\ nin[s] = 3 /\ Len(out[s]) = 1 /\ pc[s] = "recv"
    /\ raw[s].event = "mark" /\ now - last_beep_at[s] > HEARTBEAT_S

\* C9: two concurrent sessions are independent: a step that changes one
\* session (its failure and its end included) changes nothing of the other,
\* neither its id, timestamp, position and result nor its outbound frames.
C9_SessionsIndependent ==
  [][\A s \in Sessions : \A t \in Sessions \ {s} :
       (<<Local(s), chan[s]>>' # <<Local(s), chan[s]>>) =>
          (<<Local(t), chan[t]>>' = <<Local(t), chan[t]>>)]_vars

C9_Witness ==
  /\ Terminated("call1") /\ result["call1"] = "returned" /\ chan["call1"] = "error"
  /\ Len(out["call1"]) = 1 /\ stream_sid["call1"] = "CA123"
  /\ pc["call2"] = "recv" /\ Len(out["call2"]) = 2 /\ stream_sid["call2"] = "CA456"
  /\ last_beep_at["call2"] > last_beep_at["call1"]

\* C10: once the remote has closed the channel or the transport has failed
\* under a session in AWAITING_START or ACTIVE, the session reaches TERMINATED
\* at its pending receive or send, returns normally, and sends nothing more.
C10_CloseTerminates ==
  /\ \A s \in Sessions :
       (pc[s] \in {"recv", "send"} /\ chan[s] # "open")
          ~> (Terminated(s) /\ result[s] = "returned")
  /\ [][\A s \in Sessions :
         (pc[s] \in {"recv", "send"} /\ chan[s] # "open") =>
            /\ out'[s] = out[s]
            /\ pc'[s] \in {pc[s], "done"}
            /\ result'[s] \in {result[s], "returned"}]_vars

C10_Witness ==
  \E s \in Sessions :
    /\ Terminated(s) /\ result[s] = "returned" /\ chan[s] = "closed"
    /\ raw[s].event = "start" /\ stream_sid[s] = "CA123" /\ out[s] = <<>>

\* C11: TERMINATED is absorbing: a session that has ended by stop, disconnect
\* or error reads no further frame, sends nothing, keeps its session id and
\* heartbeat timestamp and never leaves TERMINATED.
C11_TerminatedAbsorbing ==
  [][\A s \in Sessions :
       Terminated(s) =>
         /\ Terminated(s)'
         /\ Local(s)' = Local(s)]_vars

C11_Witness ==
  \E s \in Sessions :
    /\ Terminated(s) /\ raw[s] = StopFrame /\ chan[s] = "open"
    /\ Len(out[s]) = 1 /\ now - last_beep_at[s] > HEARTBEAT_S
    /\ now = StartTime + MaxTicks

\* The frames of C17: connected, media and the unknown event kinds.
NoStartNoStop ==
  {f \in Frames : f.shape = "object" /\ f.event \notin {"start", "stop"}}

\* C17: before the first start frame the session id is unset and nothing has
\* been sent; in AWAITING_START connected, media and unknown frames send
\* nothing and change nothing, although the initial timestamp 0.0 lies more
\* than 6 s in the past.
C17_NothingBeforeStart ==
  /\ [](\A s \in Sessions :
         stream_sid[s] = None =>
           /\ out[s] = <<>>
           /\ outbuf[s] = NoFrame
           /\ pc[s] # "send"
           /\ last_beep_at[s] = EPOCH
           /\ last_start[s] = None
           /\ now - last_beep_at[s] > HEARTBEAT_S)
  /\ [][\A s \in Sessions : \A f \in NoStartNoStop :
         (AwaitingStart(s) /\ Got(s, f)) =>
            /\ AwaitingStart(s)'
            /\ pc'[s] = "recv"
            /\ result'[s] = "none"
            /\ out'[s] = <<>>
            /\ last_beep_at'[s] = EPOCH]_vars

C17_Witness ==
  \E s \in Sessions :
    /\ AwaitingStart(s) /\ raw[s] = MediaIn /\ nin[s] = 2
    /\ out[s] = <<>> /\ now - last_beep_at[s] > HEARTBEAT_S

\* C18: with a clock that never goes backwards, a heartbeat frame goes out
\* only when more than 6 s have passed since the previous outbound frame of
\* the session (greeting or heartbeat) went out; the heartbeat timestamp is
\* that moment, never decreases and is never later than the current time.
C18_HeartbeatSpacing ==
  /\ [][\A s \in Sessions :
         /\ (Sent(s) /\ raw[s].event = "media") =>
              /\ out[s] # <<>>
              /\ now - sent_at[s] > HEARTBEAT_S
         /\ last_beep_at'[s] >= last_beep_at[s]]_vars
  /\ [](\A s \in Sessions :
         /\ last_beep_at[s] <= now
         /\ last_beep_at[s] = sent_at[s])

C18_Witness ==
  \E s \in Sessions :
    /\ pc[s] = "recv" /\ raw[s] = MediaIn /\ Len(out[s]) = 2
    /\ out[s][2].payload = HeartbeatLen
    /\ last_beep_at[s] = now /\ now = StartTime + HEARTBEAT_S + 1

\* C19: a start frame in ACTIVE is handled like the first one: the id is
\* replaced by the frame's streamSid, one greeting with the new id goes out
\* whatever the time since the last heartbeat, the timestamp is reset to now,
\* the session stays ACTIVE, and later heartbeats carry the new id.
C19_RestartGreets ==
  [][\A s \in Sessions :
       /\ \A S \in SIDS :
            (Active(s) /\ Got(s, StartFrame(S))) =>
              /\ stream_sid'[s] = S
              /\ pc'[s] = "send"
              /\ outbuf'[s] =
                   [event |-> "media", streamSid |-> S, payload |-> GreetingLen]
              /\ out'[s] = out[s]
       /\ (Sent(s) /\ raw[s].event = "start" /\ out[s] # <<>>) =>
              /\ out'[s] = Append(out[s], outbuf[s])
              /\ outbuf[s].streamSid = raw[s].sid
              /\ last_beep_at'[s] = now'
              /\ Active(s)'
       /\ (Sent(s) /\ raw[s].event = "media") =>
              /\ out'[s] = Append(out[s],
                   [event |-> "media", streamSid |-> last_start[s],
                    payload |-> HeartbeatLen])]_vars

C19_Witness ==
  \E s \in Sessions :
    /\ pc[s] = "recv" /\ nin[s] = 2 /\ raw[s] = StartFrame("CA456")
    /\ out[s] = <<[event |-> "media", streamSid |-> "CA123", payload |-> GreetingLen],
                  [event |-> "media", streamSid |-> "CA456", payload |-> GreetingLen]>>
    /\ last_beep_at[s] = now /\ now - StartTime < HEARTBEAT_S
    /\ stream_sid[s] = "CA456"

(* ----------------------------- codec claims --------------------------- *)

Magnitude(s) == IF s < 0 THEN -s ELSE s
SameSign(a, b) == (a < 0) = (b < 0)
Compressed == job \in {"compressed", "beeped"}

\* C12: pcm16_to_mulaw returns one byte per input sample: the output is as
\* long as the input, for every buffer, the empty one included.
C12_LengthPreserved ==
  Compressed =>
    /\ Len(ulaw) = Len(pcm)
    /\ \A i \in 1..Len(ulaw) : ulaw[i] \in 0..255

C12_Witness ==
  /\ job = "beeped" /\ args.duration_ms = 1000 /\ args.sample_rate = SAMPLE_RATE
  /\ Len(pcm) = 8000 /\ Len(ulaw) = 8000

\* C13: every 16-bit sample of magnitude above 8191, from -32768 to 32767,
\* compresses to the byte of the sample of magnitude 8191 with the same sign,
\* and the call completes with a byte for it.
C13_ClampAtCeiling ==
  job = "compressed" =>
    /\ Len(ulaw) = Len(pcm)
    /\ \A i \in 1..Len(pcm) :
         (pcm[i] \in Int16 /\ Magnitude(pcm[i]) > MU_LAW_MAX) =>
            ulaw[i] = IF pcm[i] < 0 THEN MulawByte(-MU_LAW_MAX)
                                    ELSE MulawByte(MU_LAW_MAX)

C13_Witness ==
  /\ job = "compressed" /\ pcm = <<20000, -(2^15), 8191>>
  /\ ulaw = <<251, 123, 251>>

\* Standard mu-law expansion of a byte to its magnitude: complement, then
\* ((2 * mantissa + 33) << exponent) - 33.
DecodedMagnitude(b) ==
  LET u == (2^8 - 1) - b
      e == (u \div 2^4) % 2^3
      m == u % 2^4
  IN  (2 * m + 33) * 2^e - 33

\* C14: for two samples a, b of the same sign with |a| < |b| <= 8191 the
\* decoded magnitude of compress(a) is at most that of compress(b).
C14_Monotone ==
  job = "compressed" =>
    \A i \in 1..Len(pcm) : \A j \in 1..Len(pcm) :
      (/\ SameSign(pcm[i], pcm[j])
       /\ Magnitude(pcm[i]) < Magnitude(pcm[j])
       /\ Magnitude(pcm[j]) <= MU_LAW_MAX) =>
         DecodedMagnitude(ulaw[i]) <= DecodedMagnitude(ulaw[j])

\* Python's round of p / 1000 for a natural p: to the nearest, ties to even.
RoundDiv1000(p) ==
  LET q == p \div 1000
      r == p % 1000
  IN  IF r > 500 \/ (r = 500 /\ q % 2 = 1) THEN q + 1 ELSE q

\* C15 as stated: make_beep_mulaw produces round(sample_rate * duration_ms /
\* 1000) companded bytes, also when the product is no multiple of 1000.
C15_RoundedLength ==
  job = "beeped" =>
    Len(ulaw) = RoundDiv1000(args.sample_rate * args.duration_ms)

\* C15 amended: make_beep_mulaw produces floor(sample_rate * duration_ms /
\* 1000) companded bytes: the quotient is truncated, not rounded.
C15_TruncatedLength ==
  job = "beeped" =>
    /\ 1000 * Len(ulaw) <= args.sample_rate * args.duration_ms
    /\ args.sample_rate * args.duration_ms < 1000 * (Len(ulaw) + 1)

C15_Witness ==
  /\ job = "beeped" /\ args.duration_ms = 3 /\ args.sample_rate = 1600
  /\ Len(pcm) = 4 /\ Len(ulaw) = 4

\* The exponent of the reference: the first bit found set by the scan that
\* descends from bit 12 (exponent 7) to bit 6 (exponent 1), 0 if none is.
RefExponent(v) ==
  LET hits == {e \in 1..EXP_TOP : BitAnd1(v, 2^(e + 5)) = 1}
  IN  IF hits = {} THEN 0 ELSE CHOOSE e \in hits : \A d \in hits : d <= e

RefByte(s) ==
  LET m0 == Magnitude(s)
      v == (IF m0 < MU_LAW_MAX THEN m0 ELSE MU_LAW_MAX) + BIAS
      e == RefExponent(v)
  IN  (2^8 - 1) - ((IF s < 0 THEN 2^7 ELSE 0) + e * 2^4 + ((v \div 2^(e + 3)) % 2^4))

\* C16: every byte pcm16_to_mulaw produces is the reference byte, whose
\* exponent is the position of the highest set bit of v = min(|s|, 8191) + 33
\* among bits 12..6; a lower set bit never overrides a higher one.
C16_ReferenceByte ==
  job = "compressed" =>
    \A i \in 1..Len(pcm) : ulaw[i] = RefByte(pcm[i])

====
